---- MODULE Spec2Model ----
(***************************************************************************)
(* Model of the browser-as-a-service API: the BrowserManager session       *)
(* store (src/api/browser-manager.js) and the HTTP shell that drives it    *)
(* (src/unnamed/part_000).                                                 *)
(*                                                                         *)
(* JavaScript runs each handler to completion between two awaits, so one   *)
(* action is one such run: from the start of a handler (or the settling of *)
(* the promise it awaits) up to its next await or its return.  The browser *)
(* driver (playwright's launchServer / close) is outside the repository:   *)
(* when its promises settle, and whether they resolve or reject, is a      *)
(* nondeterministic choice.  createdAt timestamps are not modelled.        *)
(***************************************************************************)
EXTENDS Naturals, Sequences, FiniteSets

\* ------------------------------------------------------------------ bounds
\* The requests of a run: POST /sessions, DELETE /sessions/:id and signals
\* together, in any mix and any overlap.
MaxRequests == 4
\* The POST /sessions requests of a run in which every combination of
\* options is tried.
MaxOptionRequests == 1

\* POST /sessions requests; request c launches server handle c.
CreateCalls == 1..MaxRequests
\* DELETE /sessions/:id requests.
KillCalls == 1..MaxRequests
\* The signals shutdown is registered for; each is delivered at most once.
Signals == {"SIGINT", "SIGTERM"}
\* Session ids: opaque strings the code only compares for equality.
SessionIds == 1..MaxRequests
Servers == CreateCalls

\* ------------------------------------------------------- values of the code
\* null, as an optional value (see The below).
NULL == {}
\* A deleted entry of the Map's entry list (ECMAScript marks it empty and
\* leaves it in place, which is what keeps live iterators valid).
EMPTY == [sessionId |-> 0, server |-> 0]

DefaultWidth == 1920
DefaultHeight == 1080
DefaultViewport == [width |-> DefaultWidth, height |-> DefaultHeight]
HttpCreated == 201
HttpOk == 200
HttpNotFound == 404
HttpError == 500

\* An optional JavaScript value (undefined or null when unset) is a set with
\* at most one element.
The(opt) == CHOOSE x \in opt : TRUE

\* Request bodies of POST /sessions: the empty body and one that sets
\* every option.
AProxy == [server |-> "http://proxy:8080", username |-> "u", password |-> "p"]
EmptyBody == [headless |-> {}, proxy |-> {}, viewport |-> {}, userAgent |-> {}]
FullBody == [headless |-> {FALSE}, proxy |-> {AProxy},
             viewport |-> {[width |-> 800, height |-> 600]},
             userAgent |-> {"UA"}]
Bodies == {EmptyBody, FullBody}
\* Every body made of these option values, set or unset one by one.
OptionBodies ==
  [headless : {{}, {TRUE}, {FALSE}},
   proxy : {{}, {AProxy}},
   viewport : {{}, {[width |-> 800, height |-> 600]}},
   userAgent : {{}, {"UA"}}]
\* The bodies of the requests of a run.  createSession branches on its
\* options only to copy the proxy into the launch options, so one body
\* serves where the interleaving of requests is what is explored.
RunBodies == {FullBody}

\* What a rejected chromium.launchServer carries in err.message.
LaunchErrors == {"launch timeout", "executable not found"}

VARIABLES
  sessions,    \* this.sessions: the Map's entry list, in insertion order
  creates,     \* POST /sessions requests and their createSession calls
  kills,       \* DELETE /sessions/:id requests and their killSession calls
  cleanups,    \* shutdown handler runs and their cleanup calls
  closeCalls,  \* per server handle: how often server.close() was invoked
  removed,     \* server handles whose session has left the map
  exited       \* process.exit(0) has run

vars == <<sessions, creates, kills, cleanups, closeCalls, removed, exited>>

\* --------------------------------------------------------------- the Map
\* Map.prototype.get / has: the position of the live entry of a key, or 0.
Lookup(sess, id) ==
  IF \E i \in 1..Len(sess) : sess[i].sessionId = id
    THEN CHOOSE i \in 1..Len(sess) : sess[i].sessionId = id
    ELSE 0

Has(sess, id) == Lookup(sess, id) # 0

\* Faulty variant of MapSet: a present key gets a second entry.
MapSetAppends(sess, id, session) == Append(sess, session)

\* Map.prototype.set: a present key keeps its place, a new key is appended.
MapSet(sess, id, session) ==
  IF Has(sess, id)
    THEN [sess EXCEPT ![Lookup(sess, id)] = session]
    ELSE Append(sess, session)

\* Map.prototype.delete: the entry is emptied, the list keeps its length.
MapDelete(sess, id) ==
  IF Has(sess, id)
    THEN [sess EXCEPT ![Lookup(sess, id)] = EMPTY]
    ELSE sess

\* The server handles of the live entries.
LiveServers(sess) == {sess[i].server : i \in {j \in 1..Len(sess) : sess[j] # EMPTY}}

\* Map.prototype.size
MapSize(sess) == Cardinality({i \in 1..Len(sess) : sess[i] # EMPTY})

\* The server handle of the entry of key id, which a delete or an
\* overwriting set of that key takes out of the map.
Dropped(sess, id) ==
  IF Has(sess, id) THEN {sess[Lookup(sess, id)].server} ELSE {}

\* Faulty variant of NextLive: the iterator is done after its first entry.
NextLiveOnce(sess, i) ==
  IF i = 1 /\ \E j \in 1..Len(sess) : sess[j] # EMPTY
    THEN CHOOSE j \in 1..Len(sess) :
           sess[j] # EMPTY /\ \A m \in 1..(j - 1) : sess[m] = EMPTY
    ELSE Len(sess) + 1

\* The Map iterator's next(): the first live entry at or after position i,
\* or Len + 1 when the iteration is done.
NextLive(sess, i) ==
  IF \E j \in i..Len(sess) : sess[j] # EMPTY
    THEN CHOOSE j \in i..Len(sess) :
           sess[j] # EMPTY /\ \A m \in i..(j - 1) : sess[m] = EMPTY
    ELSE Len(sess) + 1

\* ------------------------------------------------------------ createSession
\* Faulty variant of RequestOptions: headless is defaulted with || instead of
\* ??, which turns a requested false into true.
RequestOptionsOr(body) ==
  [headless |-> IF body.headless \in {{}, {FALSE}} THEN {TRUE}
                ELSE body.headless,
   proxy |-> body.proxy,
   viewport |-> IF body.viewport = {} THEN {DefaultViewport} ELSE body.viewport,
   userAgent |-> body.userAgent]

\* The options object POST /sessions hands to createSession.
RequestOptions(body) ==
  [headless |-> IF body.headless = {} THEN {TRUE} ELSE body.headless,
   proxy |-> body.proxy,
   viewport |-> IF body.viewport = {} THEN {DefaultViewport} ELSE body.viewport,
   userAgent |-> body.userAgent]

\* createSession's destructuring of its options, with the defaults.
Destructured(options) ==
  [headless |-> IF options.headless = {} THEN TRUE ELSE The(options.headless),
   proxy |-> options.proxy,
   viewport |-> IF options.viewport = {} THEN DefaultViewport
                ELSE The(options.viewport)]

\* What createSession passes to chromium.launchServer.
LaunchOptions(options) ==
  LET d == Destructured(options) IN
  [headless |-> d.headless,
   windowSize |-> <<d.viewport.width, d.viewport.height>>,
   proxy |-> d.proxy]

\* server.wsEndpoint() of server handle s.
WsEndpoint(s) == <<"ws://127.0.0.1/", s>>

\* The session object createSession stores for server handle s.
NewSession(id, s, options) ==
  LET d == Destructured(options) IN
  [sessionId |-> id,
   server |-> s,
   wsEndpoint |-> WsEndpoint(s),
   status |-> "active",
   options |-> [headless |-> d.headless, proxy |-> d.proxy # {},
                viewport |-> d.viewport]]

\* The ids POST /sessions has drawn so far.
Issued == {creates[c].id : c \in {x \in CreateCalls : creates[x].pc # "idle"}}

\* Faulty variant of FreshIds: the generator may draw any id again.
FreshIdsRepeat == SessionIds

\* sess_ + nanoid(16): an id no earlier request of the run has drawn (ids
\* being opaque, the least one stands for any of them).
FreshIds ==
  {id \in SessionIds \ Issued : \A other \in SessionIds \ Issued : id <= other}

\* The ids a client can name in a request: those drawn so far and, standing
\* for every other string, the one that would be drawn next.
ClientIds ==
  Issued \cup FreshIds

\* The requests received so far.
Received ==
  Cardinality({c \in CreateCalls : creates[c].pc # "idle"})
  + Cardinality({k \in KillCalls : kills[k].pc # "idle"})
  + Cardinality({i \in Signals : cleanups[i].pc # "idle"})

\* Faulty variant of CreateBegin: the session is stored before the launch is
\* awaited.
CreateBeginStoresFirst(c, id, options) ==
  /\ creates[c].pc = "idle"
  /\ \A x \in CreateCalls : x < c => creates[x].pc # "idle"
  /\ creates' = [creates EXCEPT ![c] =
       [@ EXCEPT !.pc = "launching", !.id = id, !.options = options]]
  /\ sessions' = MapSet(sessions, id, NewSession(id, c, options))
  /\ UNCHANGED <<kills, cleanups, closeCalls, removed, exited>>

\* createSession up to its await: the launch is requested, nothing is stored.
CreateBegin(c, id, options) ==
  /\ creates[c].pc = "idle"
  /\ \A x \in CreateCalls : x < c => creates[x].pc # "idle"
  /\ creates' = [creates EXCEPT ![c] =
       [@ EXCEPT !.pc = "launching", !.id = id, !.options = options]]
  /\ UNCHANGED <<sessions, kills, cleanups, closeCalls, removed, exited>>

\* POST /sessions: draws the id and calls createSession.
PostSessions(c, id, body) ==
  /\ ~exited
  /\ creates[c].pc = "idle"
  /\ Received < MaxRequests
  /\ id \in FreshIds
  /\ body = creates[c].body
  /\ CreateBegin(c, id, RequestOptions(body))

\* createSession called by a client of the module, with an id and options
\* of the caller's choosing: the method takes the id as a parameter and does
\* not look it up, and it applies its own defaults to the options.
CreateSession(c, id, options) ==
  /\ ~exited
  /\ creates[c].pc = "idle"
  /\ Received < MaxRequests
  /\ id \in ClientIds
  /\ options = creates[c].body
  /\ CreateBegin(c, id, options)

\* Faulty variant of StoreSession: an id that is present keeps its entry.
StoreSessionKeeps(sess, id, s, options) ==
  IF Has(sess, id) THEN sess ELSE MapSet(sess, id, NewSession(id, s, options))

\* The entry list after createSession's this.sessions.set.
StoreSession(sess, id, s, options) == MapSet(sess, id, NewSession(id, s, options))

\* chromium.launchServer resolves: the session is stored, createSession
\* returns and POST /sessions answers 201.  joined records, for a cleanup
\* whose iteration is under way, the servers stored meanwhile.
LaunchResolved(c) ==
  /\ ~exited
  /\ creates[c].pc = "launching"
  /\ sessions' = StoreSession(sessions, creates[c].id, c, creates[c].options)
  /\ creates' = [creates EXCEPT ![c] =
       [@ EXCEPT !.pc = "done", !.http = HttpCreated,
                 !.replaced = Dropped(sessions, creates[c].id) \ {c}]]
  /\ removed' = removed \cup
       (Dropped(sessions, creates[c].id) \ {c})
  /\ cleanups' = [i \in Signals |->
       IF cleanups[i].pc \in {"closing", "killed"}
         THEN [cleanups[i] EXCEPT !.joined = @ \cup {c}]
         ELSE cleanups[i]]
  /\ UNCHANGED <<kills, closeCalls, exited>>

\* Faulty variant of LaunchRejected: the session object is stored although the
\* launch was rejected.
LaunchRejectedStores(c, err) ==
  /\ ~exited
  /\ creates[c].pc = "launching"
  /\ sessions' = StoreSession(sessions, creates[c].id, c, creates[c].options)
  /\ creates' = [creates EXCEPT ![c] =
       [@ EXCEPT !.pc = "failed", !.http = HttpError, !.error = {err}]]
  /\ UNCHANGED <<kills, cleanups, closeCalls, removed, exited>>

\* chromium.launchServer rejects: createSession throws and POST /sessions
\* answers 500 with err.message.
LaunchRejected(c, err) ==
  /\ ~exited
  /\ creates[c].pc = "launching"
  /\ creates' = [creates EXCEPT ![c] =
       [@ EXCEPT !.pc = "failed", !.http = HttpError, !.error = {err}]]
  /\ UNCHANGED <<sessions, kills, cleanups, closeCalls, removed, exited>>

\* ---------------------------------------------------------------- lookups
\* getSession(sessionId)
getSession(sess, id) ==
  IF ~Has(sess, id) THEN NULL
  ELSE LET session == sess[Lookup(sess, id)] IN
       {[sessionId |-> id, wsEndpoint |-> session.wsEndpoint,
         status |-> session.status, options |-> session.options]}

\* listSessions(): the live entries in insertion order.
listSessions(sess) ==
  LET live == SelectSeq(sess, LAMBDA e : e # EMPTY) IN
  [i \in 1..Len(live) |->
     [sessionId |-> live[i].sessionId, wsEndpoint |-> live[i].wsEndpoint,
      status |-> live[i].status, options |-> live[i].options]]

\* getActiveCount()
getActiveCount(sess) == MapSize(sess)

\* The status GET /sessions/:id answers with.
GetSessionStatus(sess, id) ==
  IF getSession(sess, id) = NULL THEN HttpNotFound ELSE HttpOk

\* -------------------------------------------------------------- killSession
\* killSession's lookup: whether it goes on to close the server.
KillFinds(sess, id) == Has(sess, id)

\* Faulty variant of AfterClose: the delete is left out.
AfterCloseKeeps(sess, id, closed) == sess

\* Faulty variant of AfterClose: a close() that throws is not caught, so the
\* delete is skipped.
AfterCloseRethrows(sess, id, closed) ==
  IF closed THEN MapDelete(sess, id) ELSE sess

\* The entry list after killSession's await on server.close() has settled,
\* whether close() resolved or threw.
AfterClose(sess, id, closed) == MapDelete(sess, id)

\* What killSession returns once it got past its lookup.
KillReturns(closed) == TRUE

\* Faulty variant of KillMissing: a lookup that finds nothing still reports
\* a kill.
KillMissingTrue == TRUE

\* What killSession returns when its lookup finds nothing.
KillMissing == FALSE

\* The killSession calls of DELETE requests that await close() for id.
Closing(id) == {x \in KillCalls : kills[x].pc = "closing" /\ kills[x].id = id}

\* DELETE /sessions/:id up to killSession's await: an absent id returns
\* false and is answered 404 at once; for a present one close() is invoked
\* on its server.
DeleteSession(k, id) ==
  /\ ~exited
  /\ kills[k].pc = "idle"
  /\ \A x \in KillCalls : x < k => kills[x].pc # "idle"
  /\ Received < MaxRequests
  /\ id \in ClientIds
  /\ IF KillFinds(sessions, id)
       THEN LET s == sessions[Lookup(sessions, id)].server IN
            /\ closeCalls' = [closeCalls EXCEPT ![s] = @ + 1]
            /\ kills' = [kills EXCEPT ![k] =
                 [@ EXCEPT !.pc = "closing", !.id = id, !.server = s,
                           !.during = Closing(id)]]
       ELSE /\ kills' = [kills EXCEPT ![k] =
                 [@ EXCEPT !.pc = "done", !.id = id, !.result = KillMissing,
                           !.http = IF KillMissing THEN HttpOk
                                    ELSE HttpNotFound]]
            /\ UNCHANGED closeCalls
  /\ UNCHANGED <<sessions, creates, cleanups, removed, exited>>

\* server.close() settles (closed: resolved, otherwise it threw and the
\* error is logged): the id is deleted, killSession returns and DELETE
\* answers.
CloseSettled(k, closed) ==
  /\ ~exited
  /\ kills[k].pc = "closing"
  /\ sessions' = AfterClose(sessions, kills[k].id, closed)
  /\ removed' = removed \cup
       {s \in Dropped(sessions, kills[k].id) :
          ~Has(sessions', kills[k].id)}
  /\ kills' = [kills EXCEPT ![k] =
       [@ EXCEPT !.pc = "done", !.result = KillReturns(closed),
                 !.threw = ~closed, !.server = 0,
                 !.http = IF KillReturns(closed) THEN HttpOk
                          ELSE HttpNotFound]]
  /\ UNCHANGED <<creates, cleanups, closeCalls, exited>>

\* ------------------------------------------------------------------ cleanup
\* Faulty variant of CleanupTurn: the loop runs over a snapshot of the
\* entries taken when cleanup began instead of over the live Map.
CleanupTurnSnapshot(i, atStart) ==
  LET rest == {m \in cleanups[i].idx..Len(sessions) :
                 sessions[m] # EMPTY /\ sessions[m].server \in atStart}
      j == IF rest = {} THEN Len(sessions) + 1
           ELSE CHOOSE m \in rest : \A x \in rest : m <= x IN
  IF j <= Len(sessions)
    THEN LET id == sessions[j].sessionId
             s == sessions[j].server IN
         /\ closeCalls' = [closeCalls EXCEPT ![s] = @ + 1]
         /\ cleanups' = [cleanups EXCEPT ![i] =
              [@ EXCEPT !.pc = "closing", !.idx = j + 1, !.id = id,
                        !.server = s, !.atStart = atStart]]
    ELSE /\ cleanups' = [cleanups EXCEPT ![i] =
              [@ EXCEPT !.pc = "returned", !.idx = j, !.atStart = atStart]]
         /\ UNCHANGED closeCalls

\* One turn of cleanup's for-of loop: the Map iterator's next() and, for
\* the entry it yields, killSession up to its await; cleanup returns when
\* the iterator is done.  atStart records the servers registered when this
\* cleanup began.
CleanupTurn(i, atStart) ==
  LET j == NextLive(sessions, cleanups[i].idx) IN
  IF j <= Len(sessions)
    THEN LET id == sessions[j].sessionId
             s == sessions[j].server IN
         IF KillFinds(sessions, id)
           THEN /\ closeCalls' = [closeCalls EXCEPT ![s] = @ + 1]
                /\ cleanups' = [cleanups EXCEPT ![i] =
                     [@ EXCEPT !.pc = "closing", !.idx = j + 1, !.id = id,
                               !.server = s, !.atStart = atStart]]
           ELSE /\ cleanups' = [cleanups EXCEPT ![i] =
                     [@ EXCEPT !.pc = "killed", !.idx = j + 1,
                               !.atStart = atStart]]
                /\ UNCHANGED closeCalls
    ELSE /\ cleanups' = [cleanups EXCEPT ![i] =
              [@ EXCEPT !.pc = "returned", !.idx = j, !.atStart = atStart]]
         /\ UNCHANGED closeCalls

\* SIGINT / SIGTERM: shutdown calls cleanup, which runs to its first await.
Shutdown(i) ==
  /\ ~exited
  /\ cleanups[i].pc = "idle"
  /\ Received < MaxRequests
  /\ CleanupTurn(i, LiveServers(sessions))
  /\ UNCHANGED <<sessions, creates, kills, removed, exited>>

\* The close() that cleanup's killSession awaits settles: the id is deleted
\* and killSession returns to cleanup, which resumes in a later job.
CleanupCloseSettled(i, closed) ==
  /\ ~exited
  /\ cleanups[i].pc = "closing"
  /\ sessions' = AfterClose(sessions, cleanups[i].id, closed)
  /\ removed' = removed \cup
       {s \in Dropped(sessions, cleanups[i].id) :
          ~Has(sessions', cleanups[i].id)}
  /\ cleanups' = [cleanups EXCEPT ![i] =
       [@ EXCEPT !.pc = "killed", !.threw = @ \/ ~closed, !.id = 0,
                 !.server = 0]]
  /\ UNCHANGED <<creates, kills, closeCalls, exited>>

\* cleanup resumes after its await on killSession.
CleanupResumed(i) ==
  /\ ~exited
  /\ cleanups[i].pc = "killed"
  /\ CleanupTurn(i, cleanups[i].atStart)
  /\ UNCHANGED <<sessions, creates, kills, removed, exited>>

\* shutdown resumes after its await on cleanup: process.exit(0).
ShutdownExit(i) ==
  /\ ~exited
  /\ cleanups[i].pc = "returned"
  /\ exited' = TRUE
  /\ cleanups' = [cleanups EXCEPT ![i] = [@ EXCEPT !.pc = "exited"]]
  /\ UNCHANGED <<sessions, creates, kills, closeCalls, removed>>

\* ------------------------------------------------------------ specification
Init ==
  /\ sessions = <<>>
  /\ creates \in [CreateCalls ->
       [pc : {"idle"}, id : {0}, body : RunBodies, options : {EmptyBody},
        http : {0}, error : {{}}, replaced : {{}}]]
  /\ kills = [k \in KillCalls |->
       [pc |-> "idle", id |-> 0, server |-> 0, result |-> FALSE,
        threw |-> FALSE, http |-> 0, during |-> {}]]
  /\ cleanups = [i \in Signals |->
       [pc |-> "idle", idx |-> 1, id |-> 0, server |-> 0, threw |-> FALSE,
        atStart |-> {}, joined |-> {}]]
  /\ closeCalls = [s \in Servers |-> 0]
  /\ removed = {}
  /\ exited = FALSE

Next ==
  \/ \E c \in CreateCalls, id \in SessionIds, body \in RunBodies :
       PostSessions(c, id, body)
  \/ \E c \in CreateCalls : LaunchResolved(c)
  \/ \E c \in CreateCalls, err \in LaunchErrors : LaunchRejected(c, err)
  \/ \E k \in KillCalls, id \in SessionIds : DeleteSession(k, id)
  \/ \E k \in KillCalls, closed \in BOOLEAN : CloseSettled(k, closed)
  \/ \E i \in Signals : Shutdown(i)
  \/ \E i \in Signals, closed \in BOOLEAN : CleanupCloseSettled(i, closed)
  \/ \E i \in Signals : CleanupResumed(i)
  \/ \E i \in Signals : ShutdownExit(i)

Spec == Init /\ [][Next]_vars

\* The server under its scheduling: every close() that cleanup's killSession
\* awaits settles, and the job that resumes cleanup after an await is run.
Fairness ==
  \A i \in Signals :
    /\ WF_vars(\E closed \in BOOLEAN : CleanupCloseSettled(i, closed))
    /\ WF_vars(CleanupResumed(i))

SpecFair == Spec /\ Fairness

\* The BrowserManager module driven by a client that chooses the ids
\* itself: createSession, killSession and cleanup are called as the
\* handlers call them, but with any id.  Every launch resolves here: a
\* rejected one changes nothing but the answer to its own call.
\* The client calls cleanup() once, which takes the first of the cleanups
\* records.
ClientCleanups == {"SIGINT"}

NextAnyId ==
  \/ \E c \in CreateCalls, id \in SessionIds, body \in RunBodies :
       CreateSession(c, id, body)
  \/ \E c \in CreateCalls : LaunchResolved(c)
  \/ \E k \in KillCalls, id \in SessionIds : DeleteSession(k, id)
  \/ \E k \in KillCalls, closed \in BOOLEAN : CloseSettled(k, closed)
  \/ \E i \in ClientCleanups : Shutdown(i)
  \/ \E i \in ClientCleanups, closed \in BOOLEAN : CleanupCloseSettled(i, closed)
  \/ \E i \in ClientCleanups : CleanupResumed(i)
  \/ \E i \in ClientCleanups : ShutdownExit(i)

SpecAnyId == Init /\ [][NextAnyId]_vars

\* Runs that try the options: the body a POST /sessions carries, or the
\* options a client of the module passes to createSession, are any
\* combination of options, and there is no DELETE and no shutdown.
InitOptions ==
  /\ sessions = <<>>
  /\ \E b \in [1..MaxOptionRequests -> OptionBodies] :
       creates = [c \in CreateCalls |->
         [pc |-> "idle", id |-> 0,
          body |-> IF c <= MaxOptionRequests THEN b[c] ELSE FullBody,
          options |-> EmptyBody, http |-> 0, error |-> {},
          replaced |-> {}]]
  /\ kills = [k \in KillCalls |->
       [pc |-> "idle", id |-> 0, server |-> 0, result |-> FALSE,
        threw |-> FALSE, http |-> 0, during |-> {}]]
  /\ cleanups = [i \in Signals |->
       [pc |-> "idle", idx |-> 1, id |-> 0, server |-> 0, threw |-> FALSE,
        atStart |-> {}, joined |-> {}]]
  /\ closeCalls = [s \in Servers |-> 0]
  /\ removed = {}
  /\ exited = FALSE

NextOptions ==
  \/ \E c \in 1..MaxOptionRequests, id \in SessionIds, body \in OptionBodies :
       PostSessions(c, id, body)
  \/ \E c \in 1..MaxOptionRequests, id \in SessionIds,
        options \in OptionBodies :
       CreateSession(c, id, options)
  \/ \E c \in CreateCalls : LaunchResolved(c)
  \/ \E c \in CreateCalls, err \in LaunchErrors : LaunchRejected(c, err)

SpecOptions == InitOptions /\ [][NextOptions]_vars

\* ------------------------------------------------------------------- claims
LiveIds(sess) == {sess[i].sessionId : i \in {j \in 1..Len(sess) : sess[j] # EMPTY}}

\* cleanup has been invoked and has run to completion.
CleanupCompleted == \E i \in Signals : cleanups[i].pc \in {"returned", "exited"}

\* shutdown (and with it cleanup) has begun.
ShutdownBegun == \E i \in Signals : cleanups[i].pc # "idle"

\* C1: of the DELETE requests whose killSession calls for one present id
\* are in flight together (each began while the others awaited close()),
\* exactly one returns true and the others return false.
C1_ExactlyOneKillSucceeds ==
  \A k \in KillCalls :
    LET group == kills[k].during \cup {k} IN
    (kills[k].during # {} /\ \A x \in group : kills[x].pc = "done")
      => Cardinality({x \in group : kills[x].result}) = 1

\* C2: every server whose session has left the map has had close() invoked
\* exactly once.
C2_ClosedExactlyOnce == \A s \in removed : closeCalls[s] = 1

\* C3: once cleanup has run to completion, close() has been invoked on every
\* server whose launch succeeded.
C3_CleanupClosesEveryLaunch ==
  CleanupCompleted =>
    \A c \in CreateCalls : creates[c].pc = "done" => closeCalls[c] >= 1

\* C4: in every state after cleanup has completed, getActiveCount() is 0.
C4_CleanupDrains == CleanupCompleted => getActiveCount(sessions) = 0

\* C5: once shutdown has begun, a createSession call that starts fails at
\* once, and no session is inserted into the map any more.
C5_NoCreateAfterShutdown ==
  [][ShutdownBegun =>
       /\ \A c \in CreateCalls :
            creates[c].pc = "idle" => creates'[c].pc \in {"idle", "failed"}
       /\ LiveIds(sessions') \subseteq LiveIds(sessions)]_vars

\* C6: once a killSession(id) has returned true, getSession(id) is null, in
\* that state and in every later one.
C6_KilledStaysNotFound ==
  \A k \in KillCalls :
    (kills[k].pc = "done" /\ kills[k].result)
      => getSession(sessions, kills[k].id) = NULL

\* A kill has returned true while another session is still registered.
C6_Witness ==
  \E k \in KillCalls, c \in CreateCalls :
    /\ kills[k].pc = "done" /\ kills[k].result
    /\ creates[c].pc = "done" /\ creates[c].id # kills[k].id
    /\ Has(sessions, creates[c].id)

\* C7: every session in the map belongs to a createSession call whose launch
\* has resolved, and the id of a call still awaiting its launch is absent.
C7_VisibleOnlyAfterLaunch ==
  /\ \A i \in 1..Len(sessions) :
       sessions[i] # EMPTY =>
         /\ creates[sessions[i].server].pc = "done"
         /\ creates[sessions[i].server].id = sessions[i].sessionId
  /\ \A c \in CreateCalls :
       creates[c].pc = "launching" =>
         /\ getSession(sessions, creates[c].id) = NULL
         /\ \A i \in 1..Len(listSessions(sessions)) :
              listSessions(sessions)[i].sessionId # creates[c].id

\* One call awaits its launch while another call's session is visible.
C7_Witness ==
  \E c, d \in CreateCalls :
    /\ creates[c].pc = "launching"
    /\ creates[d].pc = "done"
    /\ getSession(sessions, creates[d].id) # NULL

\* C8: a rejected launch leaves the map as it was, the request is answered
\* 500 with the driver's error, and the id is never registered.
C8_FailedLaunchStoresNothing ==
  /\ [](\A c \in CreateCalls :
          creates[c].pc = "failed" =>
            /\ ~Has(sessions, creates[c].id)
            /\ creates[c].http = HttpError
            /\ creates[c].error \subseteq LaunchErrors
            /\ Cardinality(creates[c].error) = 1)
  /\ [][\A c \in CreateCalls :
          (creates[c].pc = "launching" /\ creates'[c].pc = "failed")
            => sessions' = sessions]_vars

\* One launch was rejected while another call's session is registered.
C8_Witness ==
  \E c, d \in CreateCalls :
    /\ creates[c].pc = "failed"
    /\ creates[d].pc = "done"
    /\ Has(sessions, creates[d].id)

\* C9: a close() that throws does not keep killSession from removing the
\* session and returning true, and does not keep cleanup from closing and
\* removing every other session that was registered when it began.
C9_CloseFailureTolerated ==
  /\ \A k \in KillCalls :
       (kills[k].pc = "done" /\ kills[k].threw)
         => (kills[k].result /\ ~Has(sessions, kills[k].id))
  /\ \A i \in Signals :
       (cleanups[i].pc \in {"returned", "exited"} /\ cleanups[i].threw)
         => \A s \in cleanups[i].atStart :
              closeCalls[s] >= 1 /\ s \in removed /\ s \notin LiveServers(sessions)

\* A DELETE's close() threw, and a cleanup that began with two sessions
\* registered saw a close() throw and has returned.
C9_Witness ==
  /\ \E k \in KillCalls : kills[k].pc = "done" /\ kills[k].threw
  /\ \E i \in Signals :
       /\ cleanups[i].pc = "returned"
       /\ cleanups[i].threw
       /\ Cardinality(cleanups[i].atStart) >= 2

\* C10: for an id that is not in the map, getSession returns null and
\* killSession returns false; the map stays as it was and close() is not
\* invoked.
C10_AbsentIdNoEffect ==
  /\ [](\A id \in SessionIds :
          ~Has(sessions, id) =>
            getSession(sessions, id) = NULL
            /\ GetSessionStatus(sessions, id) = HttpNotFound)
  /\ [][\A k \in KillCalls :
          (kills[k].pc = "idle" /\ kills'[k].pc # "idle"
             /\ ~Has(sessions, kills'[k].id))
            => /\ kills'[k].pc = "done"
               /\ ~kills'[k].result
               /\ kills'[k].http = HttpNotFound
               /\ sessions' = sessions
               /\ closeCalls' = closeCalls]_vars

\* A DELETE for an absent id has returned false while a session that was
\* never closed is registered.
C10_Witness ==
  \E k \in KillCalls, c \in CreateCalls :
    /\ kills[k].pc = "done" /\ ~kills[k].result
    /\ creates[c].pc = "done" /\ Has(sessions, creates[c].id)
    /\ closeCalls[c] = 0

\* C11: in every state getActiveCount() equals the length of the array
\* listSessions() returns, and that array holds each registered id exactly
\* once.
C11_CountMatchesList ==
  LET list == listSessions(sessions) IN
  /\ getActiveCount(sessions) = Len(list)
  /\ \A i, j \in 1..Len(list) :
       list[i].sessionId = list[j].sessionId => i = j
  /\ {list[i].sessionId : i \in 1..Len(list)} = LiveIds(sessions)

\* Two sessions are listed after one id was created a second time.
C11_Witness ==
  /\ Len(listSessions(sessions)) >= 2
  /\ \E c \in CreateCalls : creates[c].replaced # {}

\* The value a stored options object holds under key f, if it has that key.
Field(o, f) == IF f \in DOMAIN o THEN {o[f]} ELSE {}

\* The proxy descriptor a stored options object holds: a boolean is none.
StoredProxy(o) == IF o.proxy \in BOOLEAN THEN {} ELSE {o.proxy}

\* C12: for options with headless and viewport set, proxy and userAgent
\* set or not, right after a successful createSession(id, options)
\* getSession(id) returns a session whose options are the requested ones,
\* the proxy descriptor and the userAgent included, whose status is 'active'
\* and whose endpoint is the one the driver returned.
C12_OptionsStoredVerbatim ==
  [][\A c \in CreateCalls :
       ( /\ creates[c].pc = "launching"
         /\ creates'[c].pc = "done"
         /\ creates[c].options.headless # {}
         /\ creates[c].options.viewport # {} )
       => /\ getSession(sessions', creates[c].id) # NULL
          /\ LET session == The(getSession(sessions', creates[c].id))
                 options == creates[c].options IN
             /\ session.status = "active"
             /\ session.wsEndpoint = WsEndpoint(c)
             /\ {session.options.headless} = options.headless
             /\ {session.options.viewport} = options.viewport
             /\ options.proxy # {} =>
                  StoredProxy(session.options) = options.proxy
             /\ options.userAgent # {} =>
                  Field(session.options, "userAgent") = options.userAgent]_vars

\* The createSession calls that have started, and those that have returned.
Started == {c \in CreateCalls : creates[c].pc # "idle"}
Returned == {c \in CreateCalls : creates[c].pc = "done"}

\* C13: createSession calls whose launches overlap are assigned pairwise
\* distinct ids, and once all of them have returned successfully, with no
\* kill issued, every one of their ids is in listSessions().
C13_ConcurrentCreatesAllListed ==
  /\ \A c1, c2 \in Started : creates[c1].id = creates[c2].id => c1 = c2
  /\ ( /\ Started = Returned
       /\ \A k \in KillCalls : kills[k].pc = "idle"
       /\ \A i \in Signals : cleanups[i].pc = "idle" )
     => LET list == listSessions(sessions) IN
        /\ Len(list) = Cardinality(Returned)
        /\ \A c \in Returned :
             \E i \in 1..Len(list) : list[i].sessionId = creates[c].id

\* Three calls have returned and the launch of a later call completed before
\* that of an earlier one: their launches overlapped.
C13_Witness ==
  /\ Cardinality(Returned) >= 3
  /\ Started = Returned
  /\ \A k \in KillCalls : kills[k].pc = "idle"
  /\ \A i \in Signals : cleanups[i].pc = "idle"
  /\ \E i, j \in 1..Len(sessions) :
       i < j /\ sessions[i].server > sessions[j].server

\* C14: a killSession(id) that found its id present returns true, and a
\* killSession(id) that starts after one for the same id has returned true
\* returns false at once, invokes no close() and leaves the map as it is.
C14_SecondKillReturnsFalse ==
  [][\A k \in KillCalls :
       /\ (kills[k].pc = "closing" /\ kills'[k].pc = "done")
            => kills'[k].result
       /\ ( /\ kills[k].pc = "idle"
            /\ kills'[k].pc # "idle"
            /\ \E x \in KillCalls :
                 /\ kills[x].pc = "done"
                 /\ kills[x].result
                 /\ kills[x].id = kills'[k].id )
          => /\ kills'[k].pc = "done"
             /\ ~kills'[k].result
             /\ closeCalls' = closeCalls
             /\ sessions' = sessions]_vars

\* Two kills of one id and nothing else that kills: the first has returned
\* true, the second, which found the id gone, has returned false, and
\* close() was invoked once.
C14_Witness ==
  /\ kills[1].pc = "done" /\ kills[1].result
  /\ kills[2].pc = "done" /\ ~kills[2].result
  /\ kills[1].id = kills[2].id
  /\ \A k \in KillCalls : k > 2 => kills[k].pc = "idle"
  /\ \A i \in Signals : cleanups[i].pc = "idle"
  /\ \E c \in CreateCalls :
       creates[c].pc = "done" /\ creates[c].id = kills[1].id
         /\ closeCalls[c] = 1

\* The value of an option that is set, or its default when it is unset.
OrDefault(option, default) == IF option = {} THEN default ELSE The(option)

C16_TerminatingBeforeClose ==
  [][/\ \A i \in 1..Len(sessions') :
          (sessions'[i] # EMPTY /\ closeCalls'[sessions'[i].server] >= 1)
            => sessions'[i].status # "active"
     /\ \A i \in 1..Len(sessions), j \in 1..Len(sessions') :
          ( /\ sessions[i] # EMPTY
            /\ sessions'[j] # EMPTY
            /\ sessions[i].server = sessions'[j].server )
          => /\ sessions[i].status = "terminating"
                  => sessions'[j].status # "active"
             /\ sessions[i].status = "terminated"
                  => sessions'[j].status = "terminated"]_vars

\* C17: neither listSessions() nor getSession returns a session on whose
\* server close() has been invoked: to an observer the termination and the
\* removal of a session are one step.
C17_NeverSeenMidDeletion ==
  \A s \in Servers :
    closeCalls[s] >= 1 =>
      /\ \A i \in 1..Len(listSessions(sessions)) :
           listSessions(sessions)[i].wsEndpoint # WsEndpoint(s)
      /\ \A id \in SessionIds :
           getSession(sessions, id) # NULL
             => The(getSession(sessions, id)).wsEndpoint # WsEndpoint(s)

C19_ReplacedServerNeverClosed ==
  [][\A c \in CreateCalls :
       /\ ( /\ creates[c].pc = "launching"
            /\ creates'[c].pc = "done"
            /\ Has(sessions, creates[c].id) )
          => /\ getSession(sessions', creates[c].id) # NULL
             /\ The(getSession(sessions', creates[c].id)).wsEndpoint
                  = WsEndpoint(c)
             /\ getActiveCount(sessions') = getActiveCount(sessions)
             /\ closeCalls' = closeCalls
       /\ \A s \in creates[c].replaced : closeCalls'[s] = closeCalls[s]]_vars

\* A session was replaced by a second createSession for its id, a later
\* killSession of that id has returned true, and close() was never invoked
\* on the replaced server.
C19_Witness ==
  \E c \in Returned, k \in KillCalls :
    /\ creates[c].replaced # {}
    /\ \A s \in creates[c].replaced : closeCalls[s] = 0
    /\ kills[k].pc = "done" /\ kills[k].result
    /\ kills[k].id = creates[c].id
    /\ closeCalls[c] = 1

\* C20: a session that createSession stores while cleanup's iteration is
\* under way has been closed and removed when that cleanup returns; a
\* session that is registered after a cleanup has returned was stored after
\* its iteration had finished.
C20_CleanupReachesLateSessions ==
  \A i \in Signals :
    cleanups[i].pc \in {"returned", "exited"} =>
      /\ \A s \in cleanups[i].joined :
           closeCalls[s] >= 1 /\ s \notin LiveServers(sessions)
      /\ \A s \in LiveServers(sessions) :
           s \notin cleanups[i].atStart \cup cleanups[i].joined

\* A cleanup has returned that closed and removed a session stored during
\* its iteration, and a session stored after its iteration is registered.
C20_Witness ==
  \E i \in Signals :
    /\ cleanups[i].pc = "returned"
    /\ cleanups[i].atStart # {}
    /\ cleanups[i].joined # {}
    /\ \A s \in cleanups[i].joined : closeCalls[s] = 1
    /\ LiveServers(sessions) # {}

====
